---------------------------- MODULE Spec2Model ----------------------------
(***************************************************************************)
(* A model of onetab-analyzer.js: the domain extractor, the line parser,   *)
(* the grouping index and the interactive session (runInteractive).        *)
(*                                                                         *)
(* JavaScript strings are modelled as sequences of one-character strings,  *)
(* so that trim, split, join, endsWith, includes, toLowerCase and parseInt *)
(* are computed character by character as the engine computes them.        *)
(***************************************************************************)
EXTENDS Integers, Sequences, FiniteSets, TLC

VARIABLES
    \* main / runInteractive
    inputFile,          \* args.find(a => !a.startsWith("-"))
    entries,            \* parseFile(content)
    groups,             \* groupByDomain(entries): insertion-ordered <<domain, list>> pairs
    threshold,          \* let threshold
    markedForDeletion,  \* new Set()
    pc,                 \* position in the while loop: "prompt", "ack", "closed"
                        \* (returned) or "crashed" (left by an exception)
    input,              \* the line last read at the "> " prompt
    output,             \* what the last command logged to the console
    written,            \* the last fs.writeFileSync(name, data), if any
    markedBefore,       \* history: markedForDeletion when the command being
                        \* acknowledged was read
    listing,            \* the rows printDomainList printed at the top of the loop
    \* extractDomain applied on its own
    urlLabels,          \* the labels the hostname of the argument is made of
    urlForm,            \* how the argument is written around the hostname
    urlString,          \* the argument
    domainOut,          \* the value returned, or not yet called
    \* parseLine, parseFile and groupByDomain applied on their own
    srcLines,           \* the lines of the content, each as the parts it is written from
    parseStage,         \* which of the three functions is called next
    lineOut,            \* parseLine of each line
    fileOut,            \* parseFile of the content, with LF and with CRLF line endings
    groupsOut           \* groupByDomain of the entries parsed

vars == <<inputFile, entries, groups, threshold, markedForDeletion, pc, input,
          output, written, markedBefore, listing, urlLabels, urlForm, urlString, domainOut,
          srcLines, parseStage, lineOut, fileOut, groupsOut>>

sessionVars == <<inputFile, entries, groups, threshold, markedForDeletion, pc,
                 input, output, written, markedBefore, listing>>

extractVars == <<urlLabels, urlForm, urlString, domainOut>>

parseVars == <<srcLines, parseStage, lineOut, fileOut, groupsOut>>

-----------------------------------------------------------------------------
(* Bounds of the model *)

\* longest hostname, in labels, given to extractDomain
MaxLabels == 4

\* longest input file, in lines
MaxLines == 3

-----------------------------------------------------------------------------
(* JavaScript string primitives *)

UpperChars == <<"A","B","C","D","E","F","G","H","I","J","K","L","M",
                "N","O","P","Q","R","S","T","U","V","W","X","Y","Z">>

LowerChars == <<"a","b","c","d","e","f","g","h","i","j","k","l","m",
                "n","o","p","q","r","s","t","u","v","w","x","y","z">>

DigitChars == <<"0","1","2","3","4","5","6","7","8","9">>

WhiteSpace == {" ", "\t", "\n", "\r"}

LowerChar(c) ==
    IF \E i \in 1..26 : UpperChars[i] = c
    THEN LowerChars[CHOOSE i \in 1..26 : UpperChars[i] = c]
    ELSE c

toLowerCase(s) == [i \in 1..Len(s) |-> LowerChar(s[i])]

IsDigit(c) == \E i \in 1..10 : DigitChars[i] = c

DigitVal(c) == (CHOOSE i \in 1..10 : DigitChars[i] = c) - 1

startsWith(s, p) == Len(p) <= Len(s) /\ SubSeq(s, 1, Len(p)) = p

endsWith(s, p) == Len(p) <= Len(s) /\ SubSeq(s, Len(s) - Len(p) + 1, Len(s)) = p

\* 1-based position of the first occurrence of sub in s, 0 when there is none
indexOf(s, sub) ==
    LET hits == {i \in 1..(Len(s) - Len(sub) + 1) : SubSeq(s, i, i + Len(sub) - 1) = sub}
    IN  IF hits = {} THEN 0 ELSE CHOOSE i \in hits : \A j \in hits : i <= j

includes(s, sub) == Len(sub) = 0 \/ indexOf(s, sub) > 0

RECURSIVE split(_, _)
\* s.split(sep) for a non-empty separator string
split(s, sep) ==
    LET i == indexOf(s, sep)
    IN  IF i = 0 THEN <<s>>
        ELSE <<SubSeq(s, 1, i - 1)>> \o split(SubSeq(s, i + Len(sep), Len(s)), sep)

RECURSIVE join(_, _)
join(parts, sep) ==
    IF Len(parts) = 0 THEN <<>>
    ELSE IF Len(parts) = 1 THEN parts[1]
    ELSE parts[1] \o sep \o join(Tail(parts), sep)

\* parts.slice(-n)
sliceLast(parts, n) ==
    IF n >= Len(parts) THEN parts ELSE SubSeq(parts, Len(parts) - n + 1, Len(parts))

RECURSIVE trimStart(_)
trimStart(s) ==
    IF Len(s) > 0 /\ s[1] \in WhiteSpace THEN trimStart(Tail(s)) ELSE s

RECURSIVE trimEnd(_)
trimEnd(s) ==
    IF Len(s) > 0 /\ s[Len(s)] \in WhiteSpace THEN trimEnd(SubSeq(s, 1, Len(s) - 1)) ELSE s

trim(s) == trimEnd(trimStart(s))

\* a value that is either null or a string
Null == [isNull |-> TRUE, str |-> <<>>]

Str(s) == [isNull |-> FALSE, str |-> s]

-----------------------------------------------------------------------------
(* Domain extraction *)

MULTI_PART_TLDS ==
    << <<"c","o",".","u","k">>, <<"c","o",".","n","z">>,
       <<"c","o",".","j","p">>, <<"c","o",".","i","l">>,
       <<"c","o","m",".","a","u">>, <<"c","o","m",".","b","r">>,
       <<"o","r","g",".","u","k">> ,
       <<"g","i","t","h","u","b",".","i","o">>,
       <<"g","i","t","l","a","b",".","i","o">>,
       <<"v","e","r","c","e","l",".","a","p","p">>,
       <<"n","e","t","l","i","f","y",".","a","p","p">> >>

\* position of the first character of s that is in set cs, Len(s)+1 when none is
firstOf(s, cs) ==
    LET hits == {i \in 1..Len(s) : s[i] \in cs}
    IN  IF hits = {} THEN Len(s) + 1 ELSE CHOOSE i \in hits : \A j \in hits : i <= j

\* new URL(s).hostname for the strings of the model: an http(s) URL gives the
\* authority up to the port; a string with no scheme makes the constructor throw
\* (Null), as does an empty host or white space inside the host.
urlHostname(s) ==
    LET low  == toLowerCase(s)
        http == <<"h","t","t","p",":","/","/">>
        https == <<"h","t","t","p","s",":","/","/">>
        rest == IF startsWith(low, https) THEN SubSeq(s, 9, Len(s))
                ELSE SubSeq(s, 8, Len(s))
        auth == SubSeq(rest, 1, firstOf(rest, {"/", "?", "#"}) - 1)
        host == SubSeq(auth, 1, firstOf(auth, {":"}) - 1)
    IN  IF ~(startsWith(low, http) \/ startsWith(low, https)) THEN Null
        ELSE IF Len(host) = 0 \/ (\E i \in 1..Len(host) : host[i] \in WhiteSpace) THEN Null
        ELSE Str(host)

\* the first suffix of the table, from position i on, that the hostname ends with
RECURSIVE firstTld(_, _)
firstTld(hostname, i) ==
    IF i > Len(MULTI_PART_TLDS) THEN 0
    ELSE IF endsWith(hostname, <<".">> \o MULTI_PART_TLDS[i]) THEN i
    ELSE firstTld(hostname, i + 1)

suffixSlice_NoExtraLabel(parts, tldPartCount) == sliceLast(parts, tldPartCount)

\* parts.slice(-(tldPartCount + 1))
suffixSlice(parts, tldPartCount) == sliceLast(parts, tldPartCount + 1)

extractDomain(s) ==
    LET parsed == urlHostname(trim(s))
    IN  IF parsed.isNull THEN Null
        ELSE LET hostname == toLowerCase(parsed.str)
                 parts == split(hostname, <<".">>)
                 t == firstTld(hostname, 1)
             IN  IF t > 0
                 THEN Str(join(suffixSlice(parts, Len(split(MULTI_PART_TLDS[t], <<".">>))),
                               <<".">>))
                 ELSE Str(join(sliceLast(parts, 2), <<".">>))


-----------------------------------------------------------------------------
(* Parsing *)

\* trimmed.match(/^https?:\/\//i)
matchesHttp(trimmed) ==
    \/ startsWith(toLowerCase(trimmed), <<"h","t","t","p",":","/","/">>)
    \/ startsWith(toLowerCase(trimmed), <<"h","t","t","p","s",":","/","/">>)

PipeSep == <<" ", "|", " ">>

\* an Entry, or Null's counterpart for "no entry"
NoEntry == [isNull |-> TRUE, url |-> <<>>, title |-> <<>>, domain |-> <<>>, raw |-> <<>>]

\* the title taken as the second segment alone
parseLine_FirstTitleSegment(line) ==
    LET trimmed == trim(line)
    IN  IF Len(trimmed) = 0 \/ ~matchesHttp(trimmed) THEN NoEntry
        ELSE LET segs == split(trimmed, PipeSep)
                 urlPart == Head(segs)
                 domain == extractDomain(urlPart)
             IN  IF domain.isNull \/ Len(domain.str) = 0 THEN NoEntry
                 ELSE [isNull |-> FALSE,
                       url    |-> trim(urlPart),
                       title  |-> IF Len(segs) > 1 THEN trim(segs[2]) ELSE <<>>,
                       domain |-> domain.str,
                       raw    |-> line]

parseLine(line) ==
    LET trimmed == trim(line)
    IN  IF Len(trimmed) = 0 \/ ~matchesHttp(trimmed) THEN NoEntry
        ELSE LET segs == split(trimmed, PipeSep)
                 urlPart == Head(segs)
                 titleParts == Tail(segs)
                 domain == extractDomain(urlPart)
             IN  IF domain.isNull \/ Len(domain.str) = 0 THEN NoEntry
                 ELSE [isNull |-> FALSE,
                       url    |-> trim(urlPart),
                       title  |-> trim(join(titleParts, PipeSep)),
                       domain |-> domain.str,
                       raw    |-> line]

\* one piece of content.split(/\r?\n/): a "\r" right before the "\n" belongs to
\* the separator
stripCR(piece) ==
    IF Len(piece) > 0 /\ piece[Len(piece)] = "\r" THEN SubSeq(piece, 1, Len(piece) - 1)
    ELSE piece

\* content.split("\n"): the "\r" stays at the end of the line
splitLines_KeepCR(content) == split(content, <<"\n">>)

splitLines(content) ==
    LET pieces == split(content, <<"\n">>)
    IN  [i \in 1..Len(pieces) |-> IF i < Len(pieces) THEN stripCR(pieces[i]) ELSE pieces[i]]

RECURSIVE keepEntries(_)
\* .filter(entry => entry !== null)
keepEntries(parsed) ==
    IF Len(parsed) = 0 THEN <<>>
    ELSE IF Head(parsed).isNull THEN keepEntries(Tail(parsed))
    ELSE <<Head(parsed)>> \o keepEntries(Tail(parsed))

parseFile(content) ==
    LET lines == splitLines(content)
    IN  keepEntries([i \in 1..Len(lines) |-> parseLine(lines[i])])

RECURSIVE groupByDomain_Overwrite(_)
\* groups.set(entry.domain, [entry]): the list started anew at each entry
groupByDomain_Overwrite(es) ==
    IF Len(es) = 0 THEN <<>>
    ELSE LET n == Len(es)
             g == groupByDomain_Overwrite(SubSeq(es, 1, n - 1))
             e == es[n]
             at == {i \in 1..Len(g) : g[i][1] = e.domain}
         IN  IF at = {} THEN Append(g, <<e.domain, <<e>> >>)
             ELSE [i \in 1..Len(g) |-> IF i \in at THEN <<g[i][1], <<e>> >> ELSE g[i]]

RECURSIVE groupByDomain(_)
\* the Map as the sequence of its <<key, list>> pairs in insertion order
groupByDomain(es) ==
    IF Len(es) = 0 THEN <<>>
    ELSE LET n == Len(es)
             g == groupByDomain(SubSeq(es, 1, n - 1))
             e == es[n]
             at == {i \in 1..Len(g) : g[i][1] = e.domain}
         IN  IF at = {} THEN Append(g, <<e.domain, <<e>> >>)
             ELSE [i \in 1..Len(g) |-> IF i \in at THEN <<g[i][1], Append(g[i][2], e)>>
                                       ELSE g[i]]

-----------------------------------------------------------------------------
(* Interactive mode *)

NaN == [nan |-> TRUE, val |-> 0]

RECURSIVE digitsValue(_, _)
\* the value of the longest run of digits at the head of s, read after acc
digitsValue(s, acc) ==
    IF Len(s) > 0 /\ IsDigit(s[1]) THEN digitsValue(Tail(s), 10 * acc + DigitVal(s[1]))
    ELSE acc

\* parseInt(s, 10): leading white space, an optional sign, then the digits up
\* to the first other character; NaN when there is no digit
parseInt(s) ==
    LET t == trimStart(s)
        neg == Len(t) > 0 /\ t[1] = "-"
        body == IF Len(t) > 0 /\ t[1] \in {"-", "+"} THEN Tail(t) ELSE t
    IN  IF Len(body) = 0 \/ ~IsDigit(body[1]) THEN NaN
        ELSE [nan |-> FALSE,
              val |-> IF neg THEN 0 - digitsValue(body, 0) ELSE digitsValue(body, 0)]

RECURSIVE filterByThreshold(_, _)
\* .filter(([_, e]) => e.length >= threshold)
filterByThreshold(g, th) ==
    IF Len(g) = 0 THEN <<>>
    ELSE IF Len(Head(g)[2]) >= th THEN <<Head(g)>> \o filterByThreshold(Tail(g), th)
    ELSE filterByThreshold(Tail(g), th)

RECURSIVE sortByCount(_)
\* .sort((a, b) => b[1].length - a[1].length): descending, stable
sortByCount(g) ==
    IF Len(g) <= 1 THEN g
    ELSE LET n == Len(g)
             s == sortByCount(SubSeq(g, 1, n - 1))
             x == g[n]
             k == Cardinality({i \in 1..Len(s) : Len(s[i][2]) >= Len(x[2])})
         IN  SubSeq(s, 1, k) \o <<x>> \o SubSeq(s, k + 1, Len(s))

getSortedDomains_Unfiltered(g, th) == sortByCount(g)

getSortedDomains(g, th) == sortByCount(filterByThreshold(g, th))

\* sortedDomains.find(([d]) => d === lower || d.includes(lower))
findMatch(sortedDomains, lower) ==
    LET hits == {i \in 1..Len(sortedDomains) :
                    sortedDomains[i][1] = lower \/ includes(sortedDomains[i][1], lower)}
    IN  IF hits = {} THEN 0 ELSE CHOOSE i \in hits : \A j \in hits : i <= j

\* a resolution that hands back the lower-cased input when nothing matches
resolveDomain_EchoInput(inp, sortedDomains) ==
    LET num == parseInt(inp)
    IN  IF ~num.nan /\ num.val >= 1 /\ num.val <= Len(sortedDomains)
        THEN Str(sortedDomains[num.val][1])
        ELSE LET m == findMatch(sortedDomains, toLowerCase(inp))
             IN  IF m = 0 THEN (IF Len(inp) = 0 THEN Null ELSE Str(toLowerCase(inp)))
                 ELSE Str(sortedDomains[m][1])

resolveDomain(inp, sortedDomains) ==
    LET num == parseInt(inp)
    IN  IF ~num.nan /\ num.val >= 1 /\ num.val <= Len(sortedDomains)
        THEN Str(sortedDomains[num.val][1])
        ELSE LET m == findMatch(sortedDomains, toLowerCase(inp))
             IN  IF m = 0 \/ Len(sortedDomains[m][1]) = 0 THEN Null
                 ELSE Str(sortedDomains[m][1])

\* groups.has(domain), groups.get(domain)
groupsHas(g, d) == \E i \in 1..Len(g) : g[i][1] = d

groupsGet(g, d) == g[CHOOSE i \in 1..Len(g) : g[i][1] = d][2]

RECURSIVE splitWs(_)
\* input.split(/\s+/) of a trimmed line
splitWs(s) ==
    LET i == firstOf(s, WhiteSpace)
    IN  IF i > Len(s) THEN <<s>>
        ELSE <<SubSeq(s, 1, i - 1)>> \o splitWs(trimStart(SubSeq(s, i, Len(s))))

\* const [command, ...args] = input.split(/\s+/), lowercased for the switch
commandOf(line) == toLowerCase(Head(splitWs(line)))

\* const arg = args.join(" ")
argOf(line) == join(Tail(splitWs(line)), <<" ">>)

RECURSIVE filterMarked(_, _)
filterMarked(es, marked) ==
    IF Len(es) = 0 THEN <<>>
    ELSE IF Head(es).domain \in marked THEN <<Head(es)>> \o filterMarked(Tail(es), marked)
    ELSE filterMarked(Tail(es), marked)

RECURSIVE filterUnmarked(_, _)
\* entries.filter(e => !markedForDeletion.has(e.domain))
filterUnmarked(es, marked) ==
    IF Len(es) = 0 THEN <<>>
    ELSE IF Head(es).domain \in marked THEN filterUnmarked(Tail(es), marked)
    ELSE <<Head(es)>> \o filterUnmarked(Tail(es), marked)

\* filtered.map(e => e.raw).join("\n")
rawLines(es) == join([i \in 1..Len(es) |-> es[i].raw], <<"\n">>)


-----------------------------------------------------------------------------
(* The inputs of the model *)

c_show == <<"s","h","o","w">>
c_s == <<"s">>
c_delete == <<"d","e","l","e","t","e">>
c_d == <<"d">>
c_undo == <<"u","n","d","o">>
c_u == <<"u">>
c_save == <<"s","a","v","e">>
c_v == <<"v">>
c_threshold == <<"t","h","r","e","s","h","o","l","d">>
c_t == <<"t">>
c_quit == <<"q","u","i","t">>
c_q == <<"q">>
c_exit == <<"e","x","i","t">>

\* the README's default output filename and its alias
f_cleaned == <<"c","l","e","a","n","e","d",".","t","x","t">>
f_def == <<"d","e","f">>
f_in == <<"i","n">>
f_out == <<"o","u","t">>

\* the lines of the export files: two domains, one a substring of the other
l_a == <<"h","t","t","p","s",":","/","/","a",".","i","o">>
l_aa == <<"h","t","t","p","s",":","/","/","a","a",".","i","o"," ","|"," ","T">>
d_a == <<"a",".","i","o">>
d_aa == <<"a","a",".","i","o">>

FileLines == {l_a, l_aa}

Files == UNION {[1..n -> FileLines] : n \in 0..MaxLines}

InputFiles == {f_in, f_cleaned}

\* what follows --threshold on the command line: no flag at all (Null), a flag
\* with nothing after it (args[i + 1] is undefined), or a value
ThresholdArgv ==
    {Null, Str(<<"u","n","d","e","f","i","n","e","d">>), Str(<<"1">>), Str(<<"-","2">>),
     Str(<<"x">>), Str(<<"0">>)}

RefArgs == {<<>>, <<"1">>, <<"2">>, <<"1","-","2">>, d_a, <<"A">>, <<"z","z">>}

FileArgs == {<<>>, f_out, f_in, f_def, f_cleaned}

ThresholdArgs == {<<>>, <<"0">>, <<"1">>, <<"2">>, <<"-","1">>, <<"x">>, <<"2","x">>}

cmdline(c, a) == IF Len(a) = 0 THEN c ELSE c \o <<" ">> \o a

InputLines ==
    {cmdline(c, a) : c \in {c_s, c_d, c_u}, a \in RefArgs}
    \cup {cmdline(c, <<"1">>) : c \in {c_show, c_delete, c_undo, <<"D">>}}
    \cup {<<"d"," "," ","1">>}
    \cup {cmdline(c_save, a) : a \in FileArgs}
    \cup {cmdline(c_t, a) : a \in ThresholdArgs}
    \cup {cmdline(c_threshold, <<"2">>)}
    \cup {c_quit, c_q, c_exit}
    \cup {<<>>, cmdline(c_v, f_def), <<"h","e","l","p">>}

HostLabels ==
    {<<"c","o">>, <<"u","k">>, <<"i","l">>, <<"o","r","g">>, <<"i","o">>,
     <<"g","i","t","h","u","b">>, <<"E","x">>}

UrlForms == {"https-path", "http-padded", "bare"}

\* the argument of extractDomain written in form f around the hostname
urlOf(labels, f) ==
    LET host == join(labels, <<".">>)
    IN  CASE f = "https-path"  -> <<"h","t","t","p","s",":","/","/">> \o host
                                   \o <<"/","p","a","g","e">>
          [] f = "http-padded" -> <<" ","H","T","T","P",":","/","/">> \o host \o <<" ">>
          [] OTHER             -> host

-----------------------------------------------------------------------------
(* main and runInteractive *)

NoOutput == [kind |-> "", text |-> <<>>, kept |-> 0, removed |-> 0]

Logged(k, txt) == [kind |-> k, text |-> txt, kept |-> 0, removed |-> 0]

NoFile == [isNull |-> TRUE, name |-> <<>>, data |-> <<>>]

NotCalled == [called |-> FALSE, isNull |-> TRUE, str |-> <<>>]

\* thresholdIndex >= 0 ? parseInt(args[thresholdIndex + 1], 10) || 3 : 3
initialThreshold(a) ==
    IF a.isNull THEN 3
    ELSE LET n == parseInt(a.str)
         IN  IF n.nan \/ n.val = 0 THEN 3 ELSE n.val

RECURSIVE filterAboveThreshold(_, _)
filterAboveThreshold(g, th) ==
    IF Len(g) = 0 THEN <<>>
    ELSE IF Len(Head(g)[2]) > th THEN <<Head(g)>> \o filterAboveThreshold(Tail(g), th)
    ELSE filterAboveThreshold(Tail(g), th)

\* the rows of sequence sorted as printDomainList renders them
rowsOf(sorted, marked) ==
    [i \in 1..Len(sorted) |-> [num          |-> i,
                               domain       |-> sorted[i][1],
                               count        |-> Len(sorted[i][2]),
                               deleteMarker |-> sorted[i][1] \in marked]]

printDomainList_StrictThreshold(g, th, marked) ==
    rowsOf(sortByCount(filterAboveThreshold(g, th)), marked)

\* the numbered rows printDomainList logs, without the bar; no row when it logs
\* "No domains with N+ URLs"
printDomainList(g, th, marked) == rowsOf(sortByCount(filterByThreshold(g, th)), marked)

\* the three parsing functions are not being called on their own
ParseIdle ==
    /\ srcLines = <<>>
    /\ parseStage = "idle"
    /\ lineOut = <<>>
    /\ fileOut = [lf |-> <<>>, crlf |-> <<>>]
    /\ groupsOut = <<>>

Init ==
    /\ inputFile \in InputFiles
    /\ \E f \in Files :
          /\ entries = parseFile(join(f, <<"\n">>))
          /\ groups = groupByDomain(parseFile(join(f, <<"\n">>)))
    /\ \E a \in ThresholdArgv : threshold = initialThreshold(a)
    /\ markedForDeletion = {}
    /\ pc = "prompt"
    /\ input = Null
    /\ output = NoOutput
    /\ written = NoFile
    /\ markedBefore = {}
    /\ listing = printDomainList(groups, threshold, markedForDeletion)
    /\ urlLabels = <<>>
    /\ urlForm = "bare"
    /\ urlString = <<>>
    /\ domainOut = NotCalled
    /\ ParseIdle

\* a show that also marks what it was asked for
Show_Marks ==
    /\ pc = "prompt"
    /\ \E line \in InputLines :
          /\ commandOf(trim(line)) \in {c_show, c_s}
          /\ LET domain == resolveDomain(argOf(trim(line)), getSortedDomains(groups, threshold))
             IN  /\ input' = Str(trim(line))
                 /\ output' = IF ~domain.isNull /\ groupsHas(groups, domain.str)
                              THEN [kind |-> "URLs from", text |-> domain.str,
                                    kept |-> Len(groupsGet(groups, domain.str)), removed |-> 0]
                              ELSE Logged("Domain not found", <<>>)
    /\ pc' = "ack"
    /\ markedBefore' = markedForDeletion
    /\ UNCHANGED listing
    /\ markedForDeletion' = markedForDeletion \cup {argOf(input'.str)}
    /\ UNCHANGED <<inputFile, entries, groups, threshold, written>>
    /\ UNCHANGED extractVars
    /\ UNCHANGED parseVars

\* case "show": case "s":
Show ==
    /\ pc = "prompt"
    /\ \E line \in InputLines :
          /\ commandOf(trim(line)) \in {c_show, c_s}
          /\ LET domain == resolveDomain(argOf(trim(line)), getSortedDomains(groups, threshold))
             IN  /\ input' = Str(trim(line))
                 /\ output' = IF ~domain.isNull /\ groupsHas(groups, domain.str)
                              THEN [kind |-> "URLs from", text |-> domain.str,
                                    kept |-> Len(groupsGet(groups, domain.str)), removed |-> 0]
                              ELSE Logged("Domain not found", <<>>)
    /\ pc' = "ack"
    /\ markedBefore' = markedForDeletion
    /\ UNCHANGED listing
    /\ UNCHANGED <<inputFile, entries, groups, threshold, markedForDeletion, written>>
    /\ UNCHANGED extractVars
    /\ UNCHANGED parseVars

markToggle(marked, domain) ==
    IF domain \in marked THEN marked \ {domain} ELSE marked \cup {domain}

\* markedForDeletion.add(domain)
markAdd(marked, domain) == marked \cup {domain}

\* case "delete": case "d":
Delete ==
    /\ pc = "prompt"
    /\ \E line \in InputLines :
          /\ commandOf(trim(line)) \in {c_delete, c_d}
          /\ LET domain == resolveDomain(argOf(trim(line)), getSortedDomains(groups, threshold))
             IN  /\ input' = Str(trim(line))
                 /\ IF ~domain.isNull
                    THEN /\ markedForDeletion' = markAdd(markedForDeletion, domain.str)
                         /\ output' = Logged("Marked for deletion", domain.str)
                    ELSE /\ markedForDeletion' = markedForDeletion
                         /\ output' = Logged("Domain not found", <<>>)
    /\ pc' = "ack"
    /\ markedBefore' = markedForDeletion
    /\ UNCHANGED listing
    /\ UNCHANGED <<inputFile, entries, groups, threshold, written>>
    /\ UNCHANGED extractVars
    /\ UNCHANGED parseVars

\* case "undo": case "u":
Undo ==
    /\ pc = "prompt"
    /\ \E line \in InputLines :
          /\ commandOf(trim(line)) \in {c_undo, c_u}
          /\ LET r == resolveDomain(argOf(trim(line)), getSortedDomains(groups, threshold))
                 domain == IF r.isNull THEN toLowerCase(argOf(trim(line))) ELSE r.str
             IN  /\ input' = Str(trim(line))
                 /\ IF domain \in markedForDeletion
                    THEN /\ markedForDeletion' = markedForDeletion \ {domain}
                         /\ output' = Logged("Unmarked", domain)
                    ELSE /\ markedForDeletion' = markedForDeletion
                         /\ output' = Logged("Domain not in deletion list", <<>>)
    /\ pc' = "ack"
    /\ markedBefore' = markedForDeletion
    /\ UNCHANGED listing
    /\ UNCHANGED <<inputFile, entries, groups, threshold, written>>
    /\ UNCHANGED extractVars
    /\ UNCHANGED parseVars

saveRefusal_NoInputCheck(arg, marked, inFile) ==
    IF Len(arg) = 0 THEN "Please provide filename"
    ELSE IF marked = {} THEN "No domains marked for deletion"
    ELSE ""

\* the preconditions of save, in the order the code tests them: the message of
\* the first one violated, "" when the save goes ahead
saveRefusal(arg, marked, inFile) ==
    IF Len(arg) = 0 THEN "Please provide filename"
    ELSE IF marked = {} THEN "No domains marked for deletion"
    ELSE IF arg = inFile THEN "Cannot overwrite input file"
    ELSE ""

\* case "save":
Save ==
    /\ pc = "prompt"
    /\ \E line \in InputLines :
          /\ commandOf(trim(line)) = c_save
          /\ LET arg == argOf(trim(line))
                 filtered == filterUnmarked(entries, markedForDeletion)
             IN  /\ input' = Str(trim(line))
                 /\ IF saveRefusal(arg, markedForDeletion, inputFile) # ""
                    THEN /\ output' = Logged(saveRefusal(arg, markedForDeletion, inputFile),
                                             <<>>)
                         /\ written' = written
                         /\ pc' = "ack"
                    ELSE \/ /\ written' = [isNull |-> FALSE, name |-> arg,
                                           data |-> rawLines(filtered)]
                            /\ output' = [kind |-> "Saved", text |-> arg,
                                          kept |-> Len(filtered),
                                          removed |-> Len(entries) - Len(filtered)]
                            /\ pc' = "ack"
                         \* fs.writeFileSync throws (the path cannot be opened):
                         \* nothing catches it, the process ends
                         \/ /\ written' = written
                            /\ output' = NoOutput
                            /\ pc' = "crashed"
    /\ markedBefore' = markedForDeletion
    /\ UNCHANGED listing
    /\ UNCHANGED <<inputFile, entries, groups, threshold, markedForDeletion>>
    /\ UNCHANGED extractVars
    /\ UNCHANGED parseVars

\* case "threshold": case "t": for the line read; the loop then renders the list
ThresholdCmd(line) ==
    /\ pc = "prompt"
    /\ commandOf(trim(line)) \in {c_threshold, c_t}
    /\ LET newThreshold == parseInt(argOf(trim(line)))
       IN  threshold' = IF ~newThreshold.nan /\ newThreshold.val > 0
                        THEN newThreshold.val ELSE threshold
    /\ listing' = printDomainList(groups, threshold', markedForDeletion)
    /\ UNCHANGED <<inputFile, entries, groups, markedForDeletion, pc, input, output, written,
                   markedBefore>>
    /\ UNCHANGED extractVars
    /\ UNCHANGED parseVars

Threshold == \E line \in InputLines : ThresholdCmd(line)

QuitCommands == {c_quit, c_q, c_exit}

\* case "quit": case "q": case "exit": for the line read
QuitCmd(line) ==
    /\ pc = "prompt"
    /\ commandOf(trim(line)) \in QuitCommands
    /\ pc' = "closed"
    /\ UNCHANGED <<inputFile, entries, groups, threshold, markedForDeletion, input, output,
                   written, markedBefore, listing>>
    /\ UNCHANGED extractVars
    /\ UNCHANGED parseVars

Quit == \E line \in InputLines : QuitCmd(line)

\* no case of the switch matches: the loop goes round
Unrecognized ==
    /\ pc = "prompt"
    /\ \E line \in InputLines :
          commandOf(trim(line)) \notin {c_show, c_s, c_delete, c_d, c_undo, c_u, c_save,
                                        c_threshold, c_t, c_quit, c_q, c_exit}
    /\ listing' = printDomainList(groups, threshold, markedForDeletion)
    /\ UNCHANGED <<inputFile, entries, groups, threshold, markedForDeletion, pc, input, output,
                   written, markedBefore>>
    /\ UNCHANGED extractVars
    /\ UNCHANGED parseVars

\* a case that returns where it should break
Continue_Returns ==
    /\ pc = "ack"
    /\ pc' = "closed"
    /\ UNCHANGED <<inputFile, entries, groups, threshold, markedForDeletion, written, input,
                   output, markedBefore, listing>>
    /\ UNCHANGED extractVars
    /\ UNCHANGED parseVars

\* await prompt(rl, "Press Enter to continue..."); break; then console.clear()
\* and printDomainList at the top of the loop
Continue ==
    /\ pc = "ack"
    /\ pc' = "prompt"
    /\ input' = Null
    /\ output' = NoOutput
    /\ markedBefore' = {}
    /\ listing' = printDomainList(groups, threshold, markedForDeletion)
    /\ UNCHANGED <<inputFile, entries, groups, threshold, markedForDeletion, written>>
    /\ UNCHANGED extractVars
    /\ UNCHANGED parseVars

Next ==
    \/ Show
    \/ Delete
    \/ Undo
    \/ Save
    \/ Threshold
    \/ Quit
    \/ Unrecognized
    \/ Continue

Spec == Init /\ [][Next]_vars

-----------------------------------------------------------------------------
(* extractDomain applied to one URL string *)

Hosts == UNION {[1..n -> HostLabels] : n \in 1..MaxLabels}

InitExtract ==
    /\ urlLabels \in Hosts
    /\ urlForm \in UrlForms
    /\ urlString = urlOf(urlLabels, urlForm)
    /\ domainOut = NotCalled
    /\ inputFile = f_in
    /\ entries = <<>>
    /\ groups = <<>>
    /\ threshold = 3
    /\ markedForDeletion = {}
    /\ pc = "idle"
    /\ input = Null
    /\ output = NoOutput
    /\ written = NoFile
    /\ markedBefore = {}
    /\ listing = <<>>
    /\ ParseIdle

CallExtractDomain ==
    /\ ~domainOut.called
    /\ domainOut' = [called |-> TRUE, isNull |-> extractDomain(urlString).isNull,
                     str |-> extractDomain(urlString).str]
    /\ UNCHANGED <<urlLabels, urlForm, urlString>>
    /\ UNCHANGED sessionVars
    /\ UNCHANGED parseVars

NextExtract == CallExtractDomain

SpecExtract == InitExtract /\ [][NextExtract]_vars


-----------------------------------------------------------------------------
(* parseLine, parseFile and groupByDomain applied to one content *)

NoTitle == << >>

\* a line as the parts it is written from: white space around it, the URL
\* segment (any text, for a line that is no URL) and the segments of the title
SrcLine(p, u, t) == [pad |-> p, url |-> u, titleSegs |-> t]

SrcLineSet ==
    { SrcLine(<<>>, l_a, NoTitle),
      SrcLine(<<>>, <<"h","t","t","p","s",":","/","/","a","a",".","i","o">>, << <<"T">> >>),
      SrcLine(<<>>, <<"h","t","t","p",":","/","/","b",".","a",".","i","o","/","x">>,
              << <<"A">>, <<"B">> >>),
      SrcLine(<<" ">>, <<"H","T","T","P","S",":","/","/","E","x",".","c","o",".","u","k">>,
              NoTitle),
      SrcLine(<<>>, <<"n","o","t","e">>, << <<"T">> >>),
      SrcLine(<<>>, <<"h","t","t","p",":","/","/">>, << <<"T">> >>),
      SrcLine(<<>>, <<>>, NoTitle) }

\* the text of a line
lineText(src) ==
    src.pad \o src.url
    \o (IF Len(src.titleSegs) = 0 THEN <<>> ELSE PipeSep \o join(src.titleSegs, PipeSep))
    \o src.pad

\* the content of the file, its lines ended by eol
contentOf(srcs, eol) == join([i \in 1..Len(srcs) |-> lineText(srcs[i])], eol)

InitParse ==
    /\ srcLines \in UNION {[1..n -> SrcLineSet] : n \in 0..MaxLines}
    /\ parseStage = "parseLine"
    /\ lineOut = <<>>
    /\ fileOut = [lf |-> <<>>, crlf |-> <<>>]
    /\ groupsOut = <<>>
    /\ inputFile = f_in
    /\ entries = <<>>
    /\ groups = <<>>
    /\ threshold = 3
    /\ markedForDeletion = {}
    /\ pc = "idle"
    /\ input = Null
    /\ output = NoOutput
    /\ written = NoFile
    /\ markedBefore = {}
    /\ listing = <<>>
    /\ urlLabels = <<>>
    /\ urlForm = "bare"
    /\ urlString = <<>>
    /\ domainOut = NotCalled

CallParseLine ==
    /\ parseStage = "parseLine"
    /\ lineOut' = [i \in 1..Len(srcLines) |-> parseLine(lineText(srcLines[i]))]
    /\ parseStage' = "parseFile"
    /\ UNCHANGED <<srcLines, fileOut, groupsOut>>
    /\ UNCHANGED sessionVars
    /\ UNCHANGED extractVars

CallParseFile ==
    /\ parseStage = "parseFile"
    /\ fileOut' = [lf   |-> parseFile(contentOf(srcLines, <<"\n">>)),
                   crlf |-> parseFile(contentOf(srcLines, <<"\r", "\n">>))]
    /\ parseStage' = "groupByDomain"
    /\ UNCHANGED <<srcLines, lineOut, groupsOut>>
    /\ UNCHANGED sessionVars
    /\ UNCHANGED extractVars

CallGroupByDomain ==
    /\ parseStage = "groupByDomain"
    /\ groupsOut' = groupByDomain(fileOut.lf)
    /\ parseStage' = "done"
    /\ UNCHANGED <<srcLines, lineOut, fileOut>>
    /\ UNCHANGED sessionVars
    /\ UNCHANGED extractVars

NextParse ==
    \/ CallParseLine
    \/ CallParseFile
    \/ CallGroupByDomain

SpecParse == InitParse /\ [][NextParse]_vars

-----------------------------------------------------------------------------
(* Vocabulary of the properties *)

RefCommands == {c_show, c_s, c_delete, c_d}

\* a command of set cmds has been handled and awaits its acknowledgement
Acked(cmds) == pc = "ack" /\ ~input.isNull /\ commandOf(input.str) \in cmds

\* the step that handles a command of set cmds read at the prompt
Handles(cmds) ==
    pc = "prompt" /\ pc' = "ack" /\ ~input'.isNull /\ commandOf(input'.str) \in cmds

\* the list displayed above the prompt
Displayed == getSortedDomains(groups, threshold)

DisplayedNames == {Displayed[i][1] : i \in 1..Len(Displayed)}

GroupNames == {groups[i][1] : i \in 1..Len(groups)}

\* the domains the current threshold hides from the list
HiddenNames == {groups[i][1] : i \in {j \in 1..Len(groups) : Len(groups[j][2]) < threshold}}

\* show and delete name the domain they resolved their reference to
ResolvedTo(d) == output.kind \in {"URLs from", "Marked for deletion"} /\ output.text = d

ResolvedNothing == output.kind = "Domain not found"

\* the entries at the positions of set idx, in the order of the positions
RECURSIVE PickInOrder(_, _, _)
PickInOrder(es, idx, i) ==
    IF i > Len(es) THEN <<>>
    ELSE IF i \in idx THEN <<es[i].raw>> \o PickInOrder(es, idx, i + 1)
    ELSE PickInOrder(es, idx, i + 1)

-----------------------------------------------------------------------------
(* Properties *)

\* C1: a save whose filename is empty, or given while no domain is marked, or
\* whose filename equals the input filename, writes no file and reports no
\* save; no file written ever bears the name of the input file.
C1_SaveRefusedWritesNothing ==
    [][/\ (Handles({c_save})
             /\ (\/ Len(argOf(input'.str)) = 0
                 \/ markedForDeletion = {}
                 \/ argOf(input'.str) = inputFile))
          => (written' = written /\ output'.kind # "Saved")
       /\ (written'.isNull \/ written'.name # inputFile)]_vars

\* a save of the input filename was refused although domains are marked
C1_Witness ==
    /\ Acked({c_save})
    /\ argOf(input.str) = inputFile
    /\ markedForDeletion # {}
    /\ output.kind = "Cannot overwrite input file"
    /\ written.isNull

ListedSuffixesOf(ls) ==
    {i \in 1..Len(MULTI_PART_TLDS) :
        LET tl == split(MULTI_PART_TLDS[i], <<".">>)
        IN  Len(ls) > Len(tl) /\ SubSeq(ls, Len(ls) - Len(tl) + 1, Len(ls)) = tl}

LoweredLabels == [i \in 1..Len(urlLabels) |-> toLowerCase(urlLabels[i])]

\* C3: for a parseable URL extractDomain returns the listed suffix its lowercased
\* hostname ends with plus exactly one label to the left, or else the last two
\* labels (the whole hostname when it has one label); for an unparseable string
\* it returns null.
C3_ExtractDomainContract ==
    domainOut.called =>
        IF urlForm = "bare" THEN domainOut.isNull
        ELSE LET ls == LoweredLabels
                 n == Len(ls)
                 S == ListedSuffixesOf(ls)
             IN  /\ ~domainOut.isNull
                 /\ IF S # {}
                    THEN \E i \in S :
                            LET k == Len(split(MULTI_PART_TLDS[i], <<".">>))
                            IN  domainOut.str = join(SubSeq(ls, n - k, n), <<".">>)
                    ELSE IF n = 1 THEN domainOut.str = ls[1]
                    ELSE domainOut.str = ls[n - 1] \o <<".">> \o ls[n]

\* a four-label hostname under co.uk, written in capitals, gave its last three
\* labels
C3_Witness ==
    /\ domainOut.called
    /\ urlForm = "http-padded"
    /\ urlLabels = << <<"o","r","g">>, <<"E","x">>, <<"c","o">>, <<"u","k">> >>
    /\ domainOut = [called |-> TRUE, isNull |-> FALSE,
                    str |-> <<"e","x",".","c","o",".","u","k">>]

\* C4: org.il, the sibling of the listed co.il, is treated as a suffix too: a
\* hostname x.org.il gets the domain x.org.il, not org.il.
C4_SiblingSuffixListed ==
    (/\ domainOut.called
     /\ urlForm # "bare"
     /\ Len(urlLabels) >= 3
     /\ SubSeq(LoweredLabels, Len(urlLabels) - 1, Len(urlLabels))
           = << <<"o","r","g">>, <<"i","l">> >>)
    => /\ ~domainOut.isNull
       /\ domainOut.str = join(SubSeq(LoweredLabels, Len(urlLabels) - 2, Len(urlLabels)),
                               <<".">>)

\* C5: for a non-numeric reference, show and delete resolve to the domain equal
\* to the lowercased reference when it is in the list; with no such domain, to
\* the first domain of the list containing it; otherwise to nothing.
C5_ExactMatchWins ==
    (Acked(RefCommands) /\ parseInt(argOf(input.str)).nan) =>
        LET lower == toLowerCase(argOf(input.str))
            containing == {i \in 1..Len(Displayed) : includes(Displayed[i][1], lower)}
        IN  IF lower \in DisplayedNames THEN ResolvedTo(lower)
            ELSE IF containing # {}
            THEN \E i \in containing :
                    /\ \A j \in containing : i <= j
                    /\ ResolvedTo(Displayed[i][1])
            ELSE ResolvedNothing

\* C6 as stated: a hidden domain is never resolved by a numeric reference, but
\* is resolved by its exact name.
C6_HiddenResolvedByName ==
    Acked(RefCommands) =>
        \A d \in HiddenNames :
            /\ ~parseInt(argOf(input.str)).nan => ~ResolvedTo(d)
            /\ toLowerCase(argOf(input.str)) = d => ResolvedTo(d)

\* C6 as amended: show and delete never resolve to a domain the threshold hides,
\* whether the reference is a number, its exact name or a substring of it: what
\* they resolve to is a displayed domain, or nothing.
C6_HiddenNeverResolved ==
    Acked(RefCommands) =>
        /\ \A d \in HiddenNames : ~ResolvedTo(d)
        /\ ResolvedNothing \/ \E d \in DisplayedNames : ResolvedTo(d)

\* show was given the exact name of a hidden domain, the only domain there is,
\* and found nothing
C6_Witness ==
    /\ Acked({c_show, c_s})
    /\ argOf(input.str) = d_a
    /\ HiddenNames = {d_a}
    /\ GroupNames = {d_a}
    /\ ResolvedNothing

\* the domain an undo aims at: the resolved one, or the lowercased argument
UndoTarget(arg, sorted) ==
    IF resolveDomain(arg, sorted).isNull THEN toLowerCase(arg)
    ELSE resolveDomain(arg, sorted).str

\* C7: a delete leaves a set that the same delete, issued again, leaves as it
\* is, and a delete of a marked domain changes nothing; an undo of a domain that
\* is not marked leaves the set and the threshold as they are, reports "not in
\* deletion list", and the loop goes on.
C7_DeleteIdempotentUndoNoOp ==
    [][/\ Handles({c_delete, c_d}) =>
             LET r == resolveDomain(argOf(input'.str), Displayed)
                 again == resolveDomain(argOf(input'.str),
                                        getSortedDomains(groups', threshold'))
             IN  /\ again = r
                 /\ r.isNull => markedForDeletion' = markedForDeletion
                 /\ ~r.isNull => /\ markedForDeletion' = markedForDeletion \cup {r.str}
                                 /\ markedForDeletion' \cup {again.str} = markedForDeletion'
                 /\ (~r.isNull /\ r.str \in markedForDeletion)
                       => markedForDeletion' = markedForDeletion
       /\ (Handles({c_undo, c_u})
             /\ UndoTarget(argOf(input'.str), Displayed) \notin markedForDeletion)
          => /\ markedForDeletion' = markedForDeletion
             /\ threshold' = threshold
             /\ output'.kind = "Domain not in deletion list"
             /\ pc' = "ack"]_vars

\* a delete was issued for a domain already marked, and the set is what it was
C7_Witness ==
    /\ Acked({c_delete, c_d})
    /\ output.kind = "Marked for deletion"
    /\ output.text \in markedBefore
    /\ markedForDeletion = markedBefore
    /\ Cardinality(GroupNames) = 2

\* C8: the threshold is an integer >= 1 in every state of the session.
C8_ThresholdPositive == pc # "idle" => (threshold \in Int /\ threshold >= 1)

\* C9: save def writes to cleaned.txt, and is refused when cleaned.txt is the
\* input file.
C9_DefAliasResolved ==
    (Acked({c_save}) /\ argOf(input.str) = f_def /\ markedBefore # {}) =>
        IF inputFile = f_cleaned
        THEN output.kind = "Cannot overwrite input file" /\ written.isNull
        ELSE output.kind = "Saved" /\ written.name = f_cleaned

\* C10: delete 1-2 marks the first and the second domain of the displayed list.
C10_HyphenListMarksAll ==
    (/\ Acked({c_delete, c_d})
     /\ argOf(input.str) = <<"1","-","2">>
     /\ Len(Displayed) >= 2)
    => {Displayed[1][1], Displayed[2][1]} \subseteq markedForDeletion


\* the non-null elements of a sequence of parse results, from position i on, in order
RECURSIVE NonNullFrom(_, _)
NonNullFrom(outs, i) ==
    IF i > Len(outs) THEN <<>>
    ELSE IF outs[i].isNull THEN NonNullFrom(outs, i + 1)
    ELSE <<outs[i]>> \o NonNullFrom(outs, i + 1)

RECURSIVE SumOfSizes(_, _)
SumOfSizes(g, i) == IF i > Len(g) THEN 0 ELSE Len(g[i][2]) + SumOfSizes(g, i + 1)

\* the entries of a sequence that have domain d, in their order
WithDomain(es, d) ==
    LET Has(e) == e.domain = d
    IN  SelectSeq(es, Has)

\* C11: groupByDomain partitions the entries: its keys are the distinct domains
\* of the entries, each once; the group of a domain holds exactly the entries of
\* that domain in their original order; the sizes add up to the number of entries.
C11_GroupByDomainPartitions ==
    parseStage = "done" =>
        LET es == fileOut.lf
            g == groupsOut
        IN  /\ {g[k][1] : k \in 1..Len(g)} = {es[i].domain : i \in 1..Len(es)}
            /\ \A k, m \in 1..Len(g) : g[k][1] = g[m][1] => k = m
            /\ \A k \in 1..Len(g) : g[k][2] = WithDomain(es, g[k][1])
            /\ \A i \in 1..Len(es) :
                  \A k \in 1..Len(g) :
                     (\E j \in 1..Len(g[k][2]) : g[k][2][j] = es[i]) <=> g[k][1] = es[i].domain
            /\ SumOfSizes(g, 1) = Len(es)

\* three entries, the first and the third of one domain, were grouped into two
\* groups in the order the domains first appear
C11_Witness ==
    /\ parseStage = "done"
    /\ Len(fileOut.lf) = 3
    /\ Len(groupsOut) = 2
    /\ groupsOut[1][1] = d_a
    /\ groupsOut[1][2] = <<fileOut.lf[1], fileOut.lf[3]>>
    /\ fileOut.lf[1] # fileOut.lf[3]
    /\ groupsOut[2] = <<d_aa, <<fileOut.lf[2]>> >>

\* the url, title and domain of each entry of a sequence
Fields(es) == [i \in 1..Len(es) |-> <<es[i].url, es[i].title, es[i].domain>>]

\* C12: parseFile returns, in file order, exactly the non-null parseLine results
\* of the lines of the content, and returns entries of the same number, urls,
\* titles and domains when the lines are ended by CRLF instead of LF.
C12_ParseFileKeepsNonNullAnyEol ==
    parseStage \in {"groupByDomain", "done"} =>
        /\ fileOut.lf = NonNullFrom(lineOut, 1)
        /\ fileOut.crlf = NonNullFrom(lineOut, 1)
        /\ Len(fileOut.crlf) = Len(fileOut.lf)
        /\ Fields(fileOut.crlf) = Fields(fileOut.lf)

\* a content of three lines, the second no URL, gave two entries with either
\* line ending
C12_Witness ==
    /\ parseStage = "done"
    /\ Len(srcLines) = 3
    /\ ~lineOut[1].isNull /\ lineOut[2].isNull /\ ~lineOut[3].isNull
    /\ srcLines[2].url = <<"n","o","t","e">>
    /\ Len(fileOut.lf) = 2
    /\ Len(fileOut.crlf) = 2
    /\ fileOut.crlf[2].title = <<"A"," ","|"," ","B">>

\* C13: parseLine gives null for an empty line and for a line that, trimmed,
\* does not start with http:// or https://; what it gives for a line it accepts
\* has the first segment as url, the other segments rejoined with " | " as
\* title, extractDomain(url) as domain and the line itself as raw; it accepts
\* every http(s) line whose URL extractDomain can handle.
C13_ParseLineContract ==
    parseStage # "idle" /\ parseStage # "parseLine" =>
        \A i \in 1..Len(srcLines) :
            LET src == srcLines[i]
                out == lineOut[i]
                isHttp == \/ startsWith(toLowerCase(src.url), <<"h","t","t","p",":","/","/">>)
                          \/ startsWith(toLowerCase(src.url),
                                        <<"h","t","t","p","s",":","/","/">>)
            IN  /\ (Len(src.url) = 0 \/ ~isHttp) => out.isNull
                /\ (isHttp /\ ~extractDomain(src.url).isNull) => ~out.isNull
                /\ ~out.isNull =>
                      /\ out.url = src.url
                      /\ out.title = join(src.titleSegs, PipeSep)
                      /\ extractDomain(out.url) = Str(out.domain)
                      /\ out.raw = lineText(src)

\* a line with two pipes in its title was parsed next to a line that is no URL
C13_Witness ==
    /\ parseStage = "parseFile"
    /\ Len(srcLines) = 2
    /\ srcLines[1].titleSegs = << <<"A">>, <<"B">> >>
    /\ lineOut[1] = [isNull |-> FALSE,
                     url |-> <<"h","t","t","p",":","/","/","b",".","a",".","i","o","/","x">>,
                     title |-> <<"A"," ","|"," ","B">>,
                     domain |-> d_a,
                     raw |-> lineText(srcLines[1])]
    /\ srcLines[2].url = <<"n","o","t","e">>
    /\ lineOut[2].isNull


\* C14: an undo given the exact name of a marked domain unmarks that domain.
C14_UndoByExactNameUnmarks ==
    (Acked({c_undo, c_u}) /\ argOf(input.str) \in markedBefore) =>
        /\ argOf(input.str) \notin markedForDeletion
        /\ output = Logged("Unmarked", argOf(input.str))

\* the argument is a run of decimal digits and nothing else
AllDigits(a) == Len(a) > 0 /\ \A i \in 1..Len(a) : IsDigit(a[i])

NamesOf(sorted) == [i \in 1..Len(sorted) |-> sorted[i][1]]

\* sequence names holds exactly the domains with at least th entries, each once,
\* by descending count, equal counts in the order of insertion into the groups
IsThresholdRanking(names, g, th) ==
    LET pos(d) == CHOOSE i \in 1..Len(g) : g[i][1] = d
        count(d) == Len(g[pos(d)][2])
    IN  /\ {names[i] : i \in 1..Len(names)} =
              {g[i][1] : i \in {j \in 1..Len(g) : Len(g[j][2]) >= th}}
        /\ \A i, j \in 1..Len(names) : i < j =>
              /\ names[i] # names[j]
              /\ count(names[i]) >= count(names[j])
              /\ count(names[i]) = count(names[j]) => pos(names[i]) < pos(names[j])

\* C16: the list printed before the prompt and the list references are
\* resolved in are the same: exactly the domains with at least threshold
\* entries, by descending count, ties in insertion order; a numeric reference
\* N of show, delete or undo is the domain printed with rank N.
C16_DisplayedIsResolved ==
    pc \in {"prompt", "ack"} =>
        /\ [i \in 1..Len(listing) |-> listing[i].domain] = NamesOf(Displayed)
        /\ \A i \in 1..Len(listing) :
              /\ listing[i].num = i
              /\ listing[i].count = Len(groupsGet(groups, listing[i].domain))
        /\ IsThresholdRanking(NamesOf(Displayed), groups, threshold)
        /\ IsThresholdRanking([i \in 1..Len(listing) |-> listing[i].domain], groups, threshold)
        /\ (pc = "ack" /\ ~input.isNull /\ AllDigits(argOf(input.str))
              /\ digitsValue(argOf(input.str), 0) \in 1..Len(listing)) =>
              LET ranked == listing[digitsValue(argOf(input.str), 0)].domain
              IN  /\ Acked(RefCommands) => ResolvedTo(ranked)
                  /\ Acked({c_undo, c_u}) =>
                        IF ranked \in markedBefore
                        THEN output = Logged("Unmarked", ranked)
                        ELSE output = Logged("Domain not in deletion list", <<>>)

\* with two domains listed, a.io second, `d 2` marked a.io
C16_Witness ==
    /\ Acked({c_delete, c_d})
    /\ argOf(input.str) = <<"2">>
    /\ Len(listing) = 2
    /\ listing[2].domain = d_a
    /\ listing[1].count > listing[2].count
    /\ output = Logged("Marked for deletion", d_a)

\* C17: the marks are changed only by a delete or an undo whose reference
\* resolves, the threshold only by a threshold command; show, save (done or
\* refused) and commands whose reference is not found change neither; the
\* entries and the groups never change.
C17_OnlyOwnCommandChangesState ==
    [][/\ entries' = entries
       /\ groups' = groups
       /\ markedForDeletion' # markedForDeletion =>
             \/ Handles({c_delete, c_d}) /\ output'.kind = "Marked for deletion"
             \/ Handles({c_undo, c_u}) /\ output'.kind = "Unmarked"
       /\ threshold' # threshold => \E line \in InputLines : ThresholdCmd(line)
       /\ (Handles({c_show, c_s, c_save})
             \/ (pc = "prompt" /\ pc' = "ack"
                   /\ output'.kind \in {"Domain not found", "Domain not in deletion list"}))
             => markedForDeletion' = markedForDeletion /\ threshold' = threshold]_vars

\* a save was done after the threshold was set to 2 and a domain was marked:
\* both are as they were when the save was read
C17_Witness ==
    /\ Acked({c_save})
    /\ output.kind = "Saved"
    /\ markedForDeletion = {d_a}
    /\ markedBefore = {d_a}
    /\ threshold = 2

\* the loop has ended
Terminated == pc \in {"closed", "crashed"}

\* C18 as stated: the loop ends exactly on quit, q or exit; every other
\* command returns to the prompt.
C18_EndsOnlyOnQuit ==
    [][/\ ~Terminated
       /\ Terminated' => \E line \in InputLines : QuitCmd(line)
       /\ (pc = "prompt" /\ ~Terminated') =>
             /\ pc' \in {"prompt", "ack"}
             /\ pc' = "ack" => commandOf(input'.str) \notin QuitCommands
       /\ pc = "ack" => pc' = "prompt"]_vars

\* C18: the loop ends on quit, q or exit, and on a save that passed its
\* preconditions and whose write failed; every other command, a refused save
\* or a reference not found included, returns to the prompt; nothing is
\* processed after the end.
C18_EndsOnQuitOrFailedWrite ==
    [][/\ ~Terminated
       /\ pc' = "closed" => \E line \in InputLines : QuitCmd(line)
       /\ pc' = "crashed" =>
             /\ pc = "prompt"
             /\ commandOf(input'.str) = c_save
             /\ saveRefusal(argOf(input'.str), markedForDeletion, inputFile) = ""
             /\ written' = written
       /\ (pc = "prompt" /\ ~Terminated') =>
             /\ pc' \in {"prompt", "ack"}
             /\ pc' = "ack" => commandOf(input'.str) \notin QuitCommands
       /\ pc = "ack" => pc' = "prompt"]_vars

\* a save that passed its preconditions ended the session by a failed write
C18_Witness ==
    /\ pc = "crashed"
    /\ commandOf(input.str) = c_save
    /\ markedForDeletion # {}
    /\ written.isNull

\* C19: the marked names are all keys of the groups, so each has at least one
\* entry for save to remove.
C19_MarksAreGroupKeys ==
    pc # "idle" =>
        /\ markedForDeletion \subseteq GroupNames
        /\ \A d \in markedForDeletion : \E i \in 1..Len(entries) : entries[i].domain = d

\* every domain is marked and a delete of a name without entries was refused
C19_Witness ==
    /\ Acked({c_delete, c_d})
    /\ argOf(input.str) = <<"z","z">>
    /\ output.kind = "Domain not found"
    /\ Cardinality(GroupNames) = 2
    /\ markedForDeletion = GroupNames

=============================================================================
